---- MODULE Spec2Model ----
(***************************************************************************)
(* Bank of Maharashtra Loan Assistant: the serving process of main.py and  *)
(* rag_engine.py.  Texts are sequences of one-character strings; the       *)
(* fixed literals of the source are sequences of one token.                *)
(***************************************************************************)
EXTENDS Integers, Sequences, FiniteSets, TLC

VARIABLES
    g,      \* the module globals _retriever, _llm, _prompt of rag_engine
    env,    \* what the process finds around it: the index on disk, the API key
    phase,  \* "starting" (start-up hook pending), "serving" or "exited"
    fs,     \* the conversation files, by resolved path
    clock,  \* datetime.now(), read once per stored Exchange
    nreq,   \* query requests accepted so far
    resp,   \* the last response sent, with the outcome of process_query
    calls,  \* per session id, the question and answer of every
            \* save_conversation call since the last clear of that id
    reqs,   \* the process_query calls in flight (SpecConc)
    ing,    \* a run of ingest.py: position, Documents, audit files, index
    txt     \* a text handed to clean_text, with the results

vars == <<g, env, phase, fs, clock, nreq, resp, calls, reqs, ing, txt>>

(* ---------------------------- bounds ----------------------------------- *)

\* Query requests accepted over a run (each reads the clock at most once).
MaxRequests == 3
\* Query requests accepted over a run of SpecConc.
MaxConcRequests == 2
\* process_query calls that may be in flight at once in SpecConc.
MaxInFlight == 2
\* Exchanges an earlier run left in a record when SpecHist starts.
MaxStored == 4
\* Query requests accepted over a run of SpecHist.
HistRequests == 1
\* Pieces a text handed to clean_text is made of.
MaxPieces == 5

(* ----------------------- program constants ----------------------------- *)

MinQuestionLen == 3
RequestMinLength == 3
MaxQuestionLen == 500
MaxSessionIdLen == 100
HistoryWindow == 3
HistoryAnswerChars == 200
SnippetChars == 300
get_retrieval_k == 5
get_chunk_size == 1000
\* The queries of fetch_and_process_data.
NumQueries == 6

None == "None"

get_conversation_history_path == <<"conversations">>

(* ----------------------------- texts ----------------------------------- *)

Take(s, n) == SubSeq(s, 1, IF Len(s) < n THEN Len(s) ELSE n)

IsSpace(c) == c \in {" ", "\t", "\n"}

\* str.split(): the maximal runs of non-whitespace characters, in order.
RECURSIVE Words(_)
Words(s) ==
    IF s = <<>> THEN <<>>
    ELSE IF IsSpace(Head(s)) THEN Words(Tail(s))
    ELSE LET rest == Words(Tail(s))
         IN  IF Len(s) > 1 /\ ~IsSpace(s[2])
             THEN <<(<<Head(s)>> \o Head(rest))>> \o Tail(rest)
             ELSE <<(<<Head(s)>>)>> \o rest

\* sep.join(parts)
RECURSIVE Join(_, _)
Join(sep, parts) ==
    IF parts = <<>> THEN <<>>
    ELSE IF Len(parts) = 1 THEN Head(parts)
    ELSE Head(parts) \o sep \o Join(sep, Tail(parts))

\* str.split("/")
RECURSIVE SplitSlash(_)
SplitSlash(s) ==
    IF s = <<>> THEN << <<>> >>
    ELSE LET rest == SplitSlash(Tail(s))
         IN  IF Head(s) = "/" THEN << <<>> >> \o rest
             ELSE <<(<<Head(s)>> \o Head(rest))>> \o Tail(rest)

(* -------------------------- the file system ---------------------------- *)

\* A directory is the sequence of names from the working directory (or from
\* the root, named "/") down to it.  The directories that exist are the
\* working directory, the root and conversations/ (os.makedirs in
\* save_conversation); nothing in the program creates a directory below.
ExistingDirs == {<<>>, << <<"/">> >>, <<get_conversation_history_path>>}

\* Walk directory components: "." and "" stay, ".." goes up, a name goes
\* down; the walk stops at the first directory that does not exist.
RECURSIVE WalkDirs(_, _)
WalkDirs(dir, comps) ==
    IF comps = <<>> \/ dir \notin ExistingDirs THEN dir
    ELSE LET c == Head(comps)
         IN  IF c = <<>> \/ c = <<".">> THEN WalkDirs(dir, Tail(comps))
             ELSE IF c = <<".", ".">>
             THEN WalkDirs(IF dir = <<>> \/ dir = << <<"/">> >> THEN dir \o <<c>>
                           ELSE SubSeq(dir, 1, Len(dir) - 1), Tail(comps))
             ELSE WalkDirs(dir \o <<c>>, Tail(comps))

\* os.path.join(conv_dir, f"{session_id}.json") as the operating system
\* resolves it: the directory reached and the file name in it.  A session id
\* that starts with "/" makes os.path.join drop conv_dir.
FilePath(session_id) ==
    LET comps    == SplitSlash(session_id \o <<".json">>)
        absolute == session_id # <<>> /\ Head(session_id) = "/"
        start    == IF absolute THEN << <<"/">> >>
                    ELSE <<get_conversation_history_path>>
    IN  [dir  |-> WalkDirs(start, SubSeq(comps, 1, Len(comps) - 1)),
         name |-> comps[Len(comps)]]

\* The path names a place where a file can exist or be created.
Reachable(path) == path.dir \in ExistingDirs

\* Session ids a client may send: two plain ids, a second spelling of the
\* path of the first, and an id whose path lies in a missing directory.
SessionIds == {<<"a">>, <<"b">>, <<".", "/", "a">>, <<"a", "/", "b">>}

\* The path of each session's record.
PathOf == [s \in SessionIds |-> FilePath(s)]

Files == {PathOf[s] : s \in {t \in SessionIds : Reachable(PathOf[t])}}

(* ------------------------ conversation store --------------------------- *)

NoRecord == [exists |-> FALSE, data |-> <<>>]

\* os.path.exists(filepath) and json.load: the conversation read from disk,
\* [] when there is no file.
ReadConversation(store, session_id) ==
    LET path == PathOf[session_id]
    IN  IF Reachable(path) /\ store[path].exists THEN store[path].data ELSE <<>>

\* Variant of WriteConversation: the write takes the file as it is now and adds
\* the new Exchange, as a store with a lock around read and write would.
WriteConversation_merging(store, session_id, conversation) ==
    LET path == PathOf[session_id]
    IN  IF Reachable(path)
        THEN [store EXCEPT ![path] =
                 [exists |-> TRUE,
                  data |-> Append(ReadConversation(store, session_id),
                                  conversation[Len(conversation)])]]
        ELSE store

\* open(filepath, 'w') and json.dump: the whole file is rewritten.  open
\* raises FileNotFoundError when the directory of the path does not exist;
\* the except clause of save_conversation logs it and returns.
WriteConversation(store, session_id, conversation) ==
    LET path == PathOf[session_id]
    IN  IF Reachable(path)
        THEN [store EXCEPT ![path] = [exists |-> TRUE, data |-> conversation]]
        ELSE store

NewExchange(question, answer, context, now) ==
    [timestamp       |-> now,
     question        |-> question,
     answer          |-> answer,
     context_sources |-> Len(context)]

save_conversation(store, session_id, question, answer, context, now) ==
    WriteConversation(store, session_id,
        Append(ReadConversation(store, session_id),
               NewExchange(question, answer, context, now)))

load_conversation(store, session_id) == ReadConversation(store, session_id)

\* Variant of clear_conversation: the record is emptied, not removed.
clear_conversation_truncating(store, session_id) ==
    LET path == PathOf[session_id]
    IN  IF Reachable(path) /\ store[path].exists
        THEN [store |-> [store EXCEPT ![path] = [exists |-> TRUE, data |-> <<>>]],
              ret |-> TRUE]
        ELSE [store |-> store, ret |-> FALSE]

clear_conversation(store, session_id) ==
    LET path == PathOf[session_id]
    IN  IF Reachable(path) /\ store[path].exists
        THEN [store |-> [store EXCEPT ![path] = NoRecord], ret |-> TRUE]
        ELSE [store |-> store, ret |-> FALSE]

(* --------------------------- query pipeline ---------------------------- *)

\* loads counts the assignments made to _retriever: the handle the name is
\* bound to is the one FAISS.load_local returned at the loads-th assignment.
NoGlobals == [retriever |-> None, llm |-> None, prompt |-> None, loads |-> 0]

\* initialize_system past its first test: the index is loaded and _retriever
\* assigned, then the model and the prompt are made.
LoadSystem(gl, e) ==
    IF ~e.index
    THEN [g |-> gl, exc |-> "FileNotFoundError",
          detail |-> <<"Vector database not found">>]
    ELSE IF ~e.key
    THEN [g |-> [gl EXCEPT !.retriever = "retriever", !.loads = @ + 1],
          exc |-> "ValueError",
          detail |-> <<"GOOGLE_API_KEY not found in environment variables">>]
    ELSE [g |-> [retriever |-> "retriever", llm |-> "llm", prompt |-> "prompt",
                 loads |-> gl.loads + 1],
          exc |-> "none", detail |-> <<>>]

\* initialize_system: the globals after the call and the exception raised.
initialize_system(gl, e) ==
    IF gl.retriever # None
    THEN [g |-> gl, exc |-> "none", detail |-> <<>>]
    ELSE LoadSystem(gl, e)

\* Variant of validate_question: the minimum length is not checked.
validate_question_any_length(question) ==
    IF Words(question) = <<>>
    THEN [exc |-> "ValueError", detail |-> <<"Question cannot be empty">>,
          question |-> question]
    ELSE [exc |-> "none", detail |-> <<>>,
          question |-> Join(<<" ">>, Words(question))]

validate_question(question) ==
    IF Words(question) = <<>>
    THEN [exc |-> "ValueError", detail |-> <<"Question cannot be empty">>,
          question |-> question]
    ELSE LET q == Join(<<" ">>, Words(question))
         IN  IF Len(q) < MinQuestionLen
             THEN [exc |-> "ValueError", detail |-> <<"Question is too short">>,
                   question |-> q]
             ELSE [exc |-> "none", detail |-> <<>>, question |-> q]

FormatEntry(entry) ==
    << <<"User: ">> \o entry.question,
       <<"Assistant: ">> \o Take(entry.answer, HistoryAnswerChars) \o <<"...">> >>

RECURSIVE FormatEntries(_)
FormatEntries(history) ==
    IF history = <<>> THEN <<>>
    ELSE FormatEntry(Head(history)) \o FormatEntries(Tail(history))

\* Variant of LastEntries: the oldest n Exchanges, history[:n].
LastEntries_oldest(history, n) ==
    IF Len(history) <= n THEN history ELSE SubSeq(history, 1, n)

LastEntries(history, n) ==
    IF Len(history) <= n THEN history
    ELSE SubSeq(history, Len(history) - n + 1, Len(history))

format_conversation_history(history) ==
    IF history = <<>> THEN <<"No previous conversation">>
    ELSE Join(<<"\n">>, FormatEntries(LastEntries(history, HistoryWindow)))

Snippet(doc) ==
    IF Len(doc.page_content) > SnippetChars
    THEN Take(doc.page_content, SnippetChars) \o <<"...">>
    ELSE doc.page_content

ContextSnippets(docs) == [i \in 1..Len(docs) |-> Snippet(docs[i])]

Sources(docs) == {docs[i].source : i \in 1..Len(docs)}

FallbackAnswer == <<"I couldn't find relevant information in the bank's documentation. Please contact Bank of Maharashtra directly for assistance.">>

\* What a process_query call hands back: an exception or a result, with the
\* calls it made on the way.
Outcome(exc, detail, question, history_text, answer, docs, retr, llm, saves) ==
    [exc          |-> exc,
     kind         |-> IF exc # "none" THEN "error"
                      ELSE IF retr = 0 THEN "none"
                      ELSE IF llm = 1 THEN "answer" ELSE "fallback",
     detail       |-> detail,
     question     |-> question,
     history_text |-> history_text,
     answer       |-> answer,
     retrieved    |-> Len(docs),
     context_used |-> IF exc = "none" THEN ContextSnippets(docs) ELSE <<>>,
     sources      |-> IF exc = "none" THEN Sources(docs) ELSE {},
     retr_calls   |-> retr,
     llm_calls    |-> llm,
     save_calls   |-> saves]

\* process_query up to the retrieval: initialization on demand, validation,
\* the history of the session.
Prepare(gl, e, store, question, session_id) ==
    LET init == IF gl.retriever = None THEN initialize_system(gl, e)
                ELSE [g |-> gl, exc |-> "none", detail |-> <<>>]
        v    == validate_question(question)
    IN  IF init.exc # "none"
        THEN [g |-> init.g, exc |-> init.exc, detail |-> init.detail,
              question |-> question, history_text |-> <<>>]
        ELSE IF v.exc # "none"
        THEN [g |-> init.g, exc |-> v.exc, detail |-> v.detail,
              question |-> v.question, history_text |-> <<>>]
        ELSE [g |-> init.g, exc |-> "none", detail |-> <<>>,
              question |-> v.question,
              history_text |->
                  format_conversation_history(load_conversation(store, session_id))]

\* Variant of Generate: the fallback answer is recorded like any other.
Generate_saving_fallback(gl, prep, retrieval, generation) ==
    IF ~retrieval.ok
    THEN Outcome("RetrievalError", <<"retrieval failed">>, prep.question,
                 prep.history_text, <<>>, <<>>, 1, 0, 0)
    ELSE IF retrieval.docs = <<>>
    THEN Outcome("none", <<>>, prep.question, prep.history_text,
                 FallbackAnswer, retrieval.docs, 1, 0, 1)
    ELSE IF gl.prompt = None
    THEN Outcome("AttributeError", <<"'NoneType' object has no attribute 'format'">>,
                 prep.question, prep.history_text, <<>>, retrieval.docs, 1, 0, 0)
    ELSE IF ~generation.ok
    THEN Outcome("LLMError", <<"model call failed">>, prep.question,
                 prep.history_text, <<>>, retrieval.docs, 1, 1, 0)
    ELSE Outcome("none", <<>>, prep.question, prep.history_text,
                 generation.answer, retrieval.docs, 1, 1, 1)

\* Variant of Generate: a failed model call still records the question.
Generate_saving_failed(gl, prep, retrieval, generation) ==
    IF ~retrieval.ok
    THEN Outcome("RetrievalError", <<"retrieval failed">>, prep.question,
                 prep.history_text, <<>>, <<>>, 1, 0, 0)
    ELSE IF retrieval.docs = <<>>
    THEN Outcome("none", <<>>, prep.question, prep.history_text,
                 FallbackAnswer, retrieval.docs, 1, 0, 0)
    ELSE IF gl.prompt = None
    THEN Outcome("AttributeError", <<"'NoneType' object has no attribute 'format'">>,
                 prep.question, prep.history_text, <<>>, retrieval.docs, 1, 0, 0)
    ELSE IF ~generation.ok
    THEN Outcome("LLMError", <<"model call failed">>, prep.question,
                 prep.history_text, <<>>, retrieval.docs, 1, 1, 1)
    ELSE Outcome("none", <<>>, prep.question, prep.history_text,
                 generation.answer, retrieval.docs, 1, 1, 1)

\* process_query from the retrieval to the answer of the model.
Generate(gl, prep, retrieval, generation) ==
    IF ~retrieval.ok
    THEN Outcome("RetrievalError", <<"retrieval failed">>, prep.question,
                 prep.history_text, <<>>, <<>>, 1, 0, 0)
    ELSE IF retrieval.docs = <<>>
    THEN Outcome("none", <<>>, prep.question, prep.history_text,
                 FallbackAnswer, retrieval.docs, 1, 0, 0)
    ELSE IF gl.prompt = None
    THEN Outcome("AttributeError", <<"'NoneType' object has no attribute 'format'">>,
                 prep.question, prep.history_text, <<>>, retrieval.docs, 1, 0, 0)
    ELSE IF ~generation.ok
    THEN Outcome("LLMError", <<"model call failed">>, prep.question,
                 prep.history_text, <<>>, retrieval.docs, 1, 1, 0)
    ELSE Outcome("none", <<>>, prep.question, prep.history_text,
                 generation.answer, retrieval.docs, 1, 1, 1)

\* The whole of process_query, run without interruption.
process_query(gl, e, store, question, session_id, retrieval, generation, now) ==
    LET prep == Prepare(gl, e, store, question, session_id)
        out  == Generate(prep.g, prep, retrieval, generation)
    IN  IF prep.exc # "none"
        THEN [g |-> prep.g, store |-> store,
              out |-> Outcome(prep.exc, prep.detail, prep.question, <<>>, <<>>,
                              <<>>, 0, 0, 0)]
        ELSE [g |-> prep.g,
              store |-> IF out.save_calls = 1
                        THEN save_conversation(store, session_id, out.question,
                                 out.answer, out.context_used, now)
                        ELSE store,
              out |-> out]

(* ------------------------------ inputs --------------------------------- *)

\* Questions a client may send: blank, one letter between blanks, a valid
\* one with a run of blanks, and one too short for the request model.
Questions ==
    {<<" ", " ", " ">>, <<" ", "a", " ">>, <<"a", " ", " ", "b">>, <<"a">>}

\* An answer one character longer than the history keeps of it.
LongAnswer == [i \in 1..(HistoryAnswerChars + 1) |-> "x"]

Answers == {<<"o", "k">>, LongAnswer}

Doc1 == [page_content |-> <<"8", ".", "5", "%">>, source |-> "Bank of Maharashtra"]
Doc2 == [page_content |-> <<"f", "e", "e">>, source |-> "Bank of Maharashtra"]

\* What _retriever.invoke may do: raise, or return at most k chunks.
Retrievals ==
    {r \in {[ok |-> FALSE, docs |-> <<>>], [ok |-> TRUE, docs |-> <<>>],
            [ok |-> TRUE, docs |-> <<Doc1, Doc2>>]} :
        Len(r.docs) <= get_retrieval_k}

\* What chain.invoke may do: raise, or return the text of the model.
Generations ==
    {[ok |-> FALSE, answer |-> <<>>]} \cup {[ok |-> TRUE, answer |-> a] : a \in Answers}

(* --------------------------- service boundary -------------------------- *)

NoOutcome == Outcome("none", <<>>, <<>>, <<>>, <<>>, <<>>, 0, 0, 0)

Response(op, session_id, code, detail, out) ==
    [op |-> op, session_id |-> session_id, code |-> code, detail |-> detail,
     out |-> out]

\* QueryRequest: question of 3..500 characters, session id of at most 100.
QueryRequest(question, session_id) ==
    /\ Len(question) >= RequestMinLength
    /\ Len(question) <= MaxQuestionLen
    /\ Len(session_id) <= MaxSessionIdLen

ClearHistoryRequest(session_id) == Len(session_id) <= MaxSessionIdLen

\* The except clauses of query_loan_assistant.
QueryResponse(session_id, out) ==
    IF out.exc = "none" THEN Response("query", session_id, 200, <<>>, out)
    ELSE IF out.exc = "ValueError"
    THEN Response("query", session_id, 400, out.detail, out)
    ELSE Response("query", session_id, 500,
                  <<"Failed to process query. Please try again.">>, out)

NoPrep == [g |-> NoGlobals, exc |-> "none", detail |-> <<>>, question |-> <<>>,
           history_text |-> <<>>]

Idle == [pc |-> "idle", session_id |-> <<>>, prep |-> NoPrep, out |-> NoOutcome,
         conversation |-> <<>>]

\* No run of ingest.py, no text at the cleaner.
NoIngest == [pc |-> "none"]
NoText == [pc |-> "none"]

Init ==
    /\ g = NoGlobals
    /\ env \in [index : BOOLEAN, key : BOOLEAN]
    /\ phase \in {"starting", "serving"}
    /\ fs = [f \in Files |-> NoRecord]
    /\ clock = 1
    /\ nreq = 0
    /\ resp = Response("none", <<>>, 0, <<>>, NoOutcome)
    /\ calls = [s \in SessionIds |-> <<>>]
    /\ reqs = [p \in 1..MaxInFlight |-> Idle]
    /\ ing = NoIngest
    /\ txt = NoText

\* startup_event: a failed start-up ends the server process.
startup_event ==
    /\ phase = "starting"
    /\ LET init == initialize_system(g, env)
       IN  /\ g' = init.g
           /\ phase' = IF init.exc = "none" THEN "serving" ELSE "exited"
    /\ UNCHANGED <<env, fs, clock, nreq, resp, calls, reqs, ing, txt>>

health_check ==
    /\ phase = "serving"
    /\ resp' = IF g.retriever = None
               THEN Response("health", <<>>, 503, <<"Service unavailable">>, NoOutcome)
               ELSE Response("health", <<>>, 200, <<"healthy">>, NoOutcome)
    /\ UNCHANGED <<g, env, phase, fs, clock, nreq, calls, reqs, ing, txt>>

\* A request the request model rejects never reaches the handler.
RejectQuery(question, session_id) ==
    /\ phase = "serving"
    /\ ~QueryRequest(question, session_id)
    /\ resp' = Response("query", <<>>, 422, <<"validation error">>, NoOutcome)
    /\ UNCHANGED <<g, env, phase, fs, clock, nreq, calls, reqs, ing, txt>>

Logged(log, session_id, out) ==
    IF out.save_calls = 1
    THEN [log EXCEPT ![session_id] =
              Append(@, [question |-> out.question, answer |-> out.answer])]
    ELSE log

\* query_loan_assistant, one request served from start to end.
query_loan_assistant(question, session_id, retrieval, generation) ==
    /\ phase = "serving"
    /\ nreq < MaxRequests
    /\ QueryRequest(question, session_id)
    /\ LET r == process_query(g, env, fs, question, session_id, retrieval,
                              generation, clock)
       IN  /\ g' = r.g
           /\ fs' = r.store
           /\ clock' = clock + r.out.save_calls
           /\ resp' = QueryResponse(session_id, r.out)
           /\ calls' = Logged(calls, session_id, r.out)
    /\ nreq' = nreq + 1
    /\ UNCHANGED <<env, phase, reqs, ing, txt>>

clear_conversation_history(session_id) ==
    /\ phase = "serving"
    /\ ClearHistoryRequest(session_id)
    /\ LET r == clear_conversation(fs, session_id)
       IN  /\ fs' = r.store
           /\ resp' = Response("clear", session_id, 200,
                               IF r.ret THEN <<"success">> ELSE <<"info">>, NoOutcome)
    /\ calls' = [calls EXCEPT ![session_id] = <<>>]
    /\ UNCHANGED <<g, env, phase, clock, nreq, reqs, ing, txt>>

Next ==
    \/ startup_event
    \/ health_check
    \/ \E q \in Questions, s \in SessionIds : RejectQuery(q, s)
    \/ \E q \in Questions, s \in SessionIds, r \in Retrievals, a \in Generations :
           query_loan_assistant(q, s, r, a)
    \/ \E s \in SessionIds : clear_conversation_history(s)

Spec == Init /\ [][Next]_vars

(* ------------------ requests served concurrently ----------------------- *)

\* process_query calls that overlap in time (callers on several threads or
\* workers over one conversations directory).  No lock is taken anywhere in
\* rag_engine, so the calls interleave at the points where a call blocks or
\* touches the file system; each file operation is taken as one step.  SpecConc
\* follows the calls through save_conversation and takes the initialization
\* on demand as one step with the entry; SpecInit below follows them through
\* initialize_system.

\* process_query enters: initialization on demand, validation, history.  The
\* request takes the first free worker.
QBegin(p, question, session_id) ==
    /\ phase = "serving"
    /\ nreq < MaxConcRequests
    /\ reqs[p].pc = "idle"
    /\ \A o \in 1..(p - 1) : reqs[o].pc # "idle"
    /\ QueryRequest(question, session_id)
    /\ LET prep == Prepare(g, env, fs, question, session_id)
       IN  /\ g' = prep.g
           /\ IF prep.exc # "none"
              THEN /\ resp' = QueryResponse(session_id,
                                  Outcome(prep.exc, prep.detail, prep.question,
                                          <<>>, <<>>, <<>>, 0, 0, 0))
                   /\ reqs' = reqs
              ELSE /\ resp' = resp
                   /\ reqs' = [reqs EXCEPT ![p] =
                                  [Idle EXCEPT !.pc = "retrieve",
                                               !.session_id = session_id,
                                               !.prep = prep]]
    /\ nreq' = nreq + 1
    /\ UNCHANGED <<env, phase, fs, clock, calls, ing, txt>>

\* _retriever.invoke and chain.invoke, the two calls that block.
QGenerate(p, retrieval, generation) ==
    /\ reqs[p].pc = "retrieve"
    /\ LET out == Generate(g, reqs[p].prep, retrieval, generation)
       IN  IF out.save_calls = 1
           THEN /\ reqs' = [reqs EXCEPT ![p].pc = "save", ![p].out = out]
                /\ resp' = resp
           ELSE /\ reqs' = [reqs EXCEPT ![p] = Idle]
                /\ resp' = QueryResponse(reqs[p].session_id, out)
    /\ UNCHANGED <<g, env, phase, fs, clock, nreq, calls, ing, txt>>

\* save_conversation reads the file of the session.
QSaveRead(p) ==
    /\ reqs[p].pc = "save"
    /\ reqs' = [reqs EXCEPT ![p].pc = "write",
                            ![p].conversation =
                                ReadConversation(fs, reqs[p].session_id)]
    /\ UNCHANGED <<g, env, phase, fs, clock, nreq, resp, calls, ing, txt>>

\* save_conversation appends to what it read and rewrites the file; then
\* process_query returns.
QSaveWrite(p) ==
    /\ reqs[p].pc = "write"
    /\ LET out == reqs[p].out
       IN  /\ fs' = WriteConversation(fs, reqs[p].session_id,
                        Append(reqs[p].conversation,
                               NewExchange(out.question, out.answer,
                                           out.context_used, clock)))
           /\ resp' = QueryResponse(reqs[p].session_id, out)
           /\ calls' = Logged(calls, reqs[p].session_id, out)
    /\ clock' = clock + 1
    /\ reqs' = [reqs EXCEPT ![p] = Idle]
    /\ UNCHANGED <<g, env, phase, nreq, ing, txt>>

NextConc ==
    \/ startup_event
    \/ health_check
    \/ \E q \in Questions, s \in SessionIds : RejectQuery(q, s)
    \/ \E p \in 1..MaxInFlight, q \in Questions, s \in SessionIds : QBegin(p, q, s)
    \/ \E p \in 1..MaxInFlight, r \in Retrievals, a \in Generations :
           QGenerate(p, r, a)
    \/ \E p \in 1..MaxInFlight : QSaveRead(p)
    \/ \E p \in 1..MaxInFlight : QSaveWrite(p)
    \/ \E s \in SessionIds : clear_conversation_history(s)

SpecConc == Init /\ [][NextConc]_vars

(* --------------- a server started over a stored record ----------------- *)

\* The conversation files outlive the server process.  The k-th Exchange an
\* earlier run stored for session "b"; every other answer is longer than
\* HistoryAnswerChars.
StoredExchange(k) ==
    NewExchange(<<"a", " ", "b">>,
                IF k % 2 = 1 THEN LongAnswer ELSE <<"o", "k">>,
                <<Doc1, Doc2>>, k)

StoredRecord(n) == [k \in 1..n |-> StoredExchange(k)]

\* The server starts with a record of up to MaxStored Exchanges for session
\* "b" on disk and accepts HistRequests query requests.
InitHist ==
    /\ g = NoGlobals
    /\ env \in [index : BOOLEAN, key : BOOLEAN]
    /\ phase \in {"starting", "serving"}
    /\ \E n \in 0..MaxStored :
          /\ fs = [f \in Files |->
                      IF f = PathOf[<<"b">>] /\ n > 0
                      THEN [exists |-> TRUE, data |-> StoredRecord(n)]
                      ELSE NoRecord]
          /\ clock = n + 1
          /\ calls = [s \in SessionIds |->
                         IF s = <<"b">>
                         THEN [k \in 1..n |->
                                  [question |-> StoredExchange(k).question,
                                   answer   |-> StoredExchange(k).answer]]
                         ELSE <<>>]
    /\ nreq = MaxRequests - HistRequests
    /\ resp = Response("none", <<>>, 0, <<>>, NoOutcome)
    /\ reqs = [p \in 1..MaxInFlight |-> Idle]
    /\ ing = NoIngest
    /\ txt = NoText

SpecHist == InitHist /\ [][Next]_vars

(* ------------- calls that overlap during initialization --------------- *)

\* process_query enters and tests _retriever.  The request takes the first
\* free worker; its question and session id are first looked at after the
\* initialization and are drawn there.
IBegin(p) ==
    /\ phase = "serving"
    /\ nreq < MaxConcRequests
    /\ reqs[p].pc = "idle"
    /\ \A o \in 1..(p - 1) : reqs[o].pc # "idle"
    /\ reqs' = [reqs EXCEPT ![p].pc = IF g.retriever = None THEN "init"
                                      ELSE "serve"]
    /\ nreq' = nreq + 1
    /\ UNCHANGED <<g, env, phase, fs, clock, resp, calls, ing, txt>>

\* initialize_system is called and tests _retriever itself: it returns at once
\* when another call has set it in between.
IInitialize(p) ==
    /\ reqs[p].pc = "init"
    /\ reqs' = [reqs EXCEPT ![p].pc = IF g.retriever # None THEN "serve"
                                      ELSE "load"]
    /\ UNCHANGED <<g, env, phase, fs, clock, nreq, resp, calls, ing, txt>>

\* The rest of initialize_system: embeddings and index are loaded (the call
\* blocks), _retriever is assigned, the model and the prompt are made.  An
\* exception ends process_query.
ILoad(p, session_id) ==
    /\ reqs[p].pc = "load"
    /\ Len(session_id) <= MaxSessionIdLen
    /\ LET init == LoadSystem(g, env)
       IN  /\ g' = init.g
           /\ IF init.exc # "none"
              THEN /\ resp' = QueryResponse(session_id,
                                  Outcome(init.exc, init.detail, <<>>,
                                          <<>>, <<>>, <<>>, 0, 0, 0))
                   /\ reqs' = [reqs EXCEPT ![p] = Idle]
              ELSE /\ resp' = resp
                   /\ reqs' = [reqs EXCEPT ![p].pc = "serve"]
    /\ UNCHANGED <<env, phase, fs, clock, nreq, calls, ing, txt>>

\* process_query from validate_question to its return.
IServe(p, question, session_id, retrieval, generation) ==
    /\ reqs[p].pc = "serve"
    /\ QueryRequest(question, session_id)
    /\ LET r == process_query(g, env, fs, question, session_id, retrieval,
                              generation, clock)
       IN  /\ g' = r.g
           /\ fs' = r.store
           /\ clock' = clock + r.out.save_calls
           /\ resp' = QueryResponse(session_id, r.out)
           /\ calls' = Logged(calls, session_id, r.out)
    /\ reqs' = [reqs EXCEPT ![p] = Idle]
    /\ UNCHANGED <<env, phase, nreq, ing, txt>>

NextInit ==
    \/ startup_event
    \/ health_check
    \/ \E p \in 1..MaxInFlight : IBegin(p)
    \/ \E p \in 1..MaxInFlight : IInitialize(p)
    \/ \E p \in 1..MaxInFlight, s \in SessionIds : ILoad(p, s)
    \/ \E p \in 1..MaxInFlight, q \in Questions, s \in SessionIds,
          r \in Retrievals, a \in Generations : IServe(p, q, s, r, a)
    \/ \E s \in SessionIds : clear_conversation_history(s)

SpecInit == Init /\ [][NextInit]_vars

(* --------------------- ingest.py: the cleaner -------------------------- *)

\* The serving process is not running while ingest.py runs.
servingVars == <<g, env, phase, fs, clock, nreq, resp, calls, reqs>>

NotServing ==
    /\ g = NoGlobals
    /\ env = [index |-> FALSE, key |-> FALSE]
    /\ phase = "exited"
    /\ fs = [f \in Files |-> NoRecord]
    /\ clock = 1
    /\ nreq = 0
    /\ resp = Response("none", <<>>, 0, <<>>, NoOutcome)
    /\ calls = [s \in SessionIds |-> <<>>]
    /\ reqs = [p \in 1..MaxInFlight |-> Idle]

LowerCase == <<"a", "b", "c", "d", "e", "f", "g", "h", "i", "j", "k", "l", "m",
               "n", "o", "p", "q", "r", "s", "t", "u", "v", "w", "x", "y", "z">>
UpperCase == <<"A", "B", "C", "D", "E", "F", "G", "H", "I", "J", "K", "L", "M",
               "N", "O", "P", "Q", "R", "S", "T", "U", "V", "W", "X", "Y", "Z">>

IsDigit(c) == c \in {"0", "1", "2", "3", "4", "5", "6", "7", "8", "9"}

\* \w
IsWord(c) ==
    \/ \E i \in 1..26 : c = LowerCase[i] \/ c = UpperCase[i]
    \/ IsDigit(c)
    \/ c = "_"

\* str.lower()
Lower(s) ==
    [i \in 1..Len(s) |->
        IF \E k \in 1..26 : UpperCase[k] = s[i]
        THEN LowerCase[CHOOSE k \in 1..26 : UpperCase[k] = s[i]]
        ELSE s[i]]

StartsWith(s, prefix) ==
    Len(s) >= Len(prefix) /\ SubSeq(s, 1, Len(prefix)) = prefix

Drop(s, n) == SubSeq(s, n + 1, Len(s))

\* The number of characters at the start of s that are whitespace.
RECURSIVE LeadingSpaces(_)
LeadingSpaces(s) ==
    IF s # <<>> /\ IsSpace(Head(s)) THEN 1 + LeadingSpaces(Tail(s)) ELSE 0

\* The number of characters at the start of s that are not whitespace.
RECURSIVE LeadingNonSpaces(_)
LeadingNonSpaces(s) ==
    IF s # <<>> /\ ~IsSpace(Head(s)) THEN 1 + LeadingNonSpaces(Tail(s)) ELSE 0

RECURSIVE LeadingDigits(_)
LeadingDigits(s) ==
    IF s # <<>> /\ IsDigit(Head(s)) THEN 1 + LeadingDigits(Tail(s)) ELSE 0

RECURSIVE Reverse(_)
Reverse(s) == IF s = <<>> THEN <<>> ELSE Append(Reverse(Tail(s)), Head(s))

\* str.strip()
Strip(s) ==
    LET t == Drop(s, LeadingSpaces(s))
    IN  Reverse(Drop(Reverse(t), LeadingSpaces(Reverse(t))))

\* re.sub(r'\s+', ' ', text)
RECURSIVE CollapseWhitespace(_)
CollapseWhitespace(s) ==
    IF s = <<>> THEN <<>>
    ELSE IF IsSpace(Head(s))
    THEN <<" ">> \o CollapseWhitespace(Drop(s, LeadingSpaces(s)))
    ELSE <<Head(s)>> \o CollapseWhitespace(Tail(s))

\* re.sub(r'[^\w\s\.\,\-\%\(\)\:\/]', '', text)
Allowed(c) ==
    IsWord(c) \/ IsSpace(c) \/ c \in {".", ",", "-", "%", "(", ")", ":", "/"}

StripSpecial(s) == SelectSeq(s, Allowed)

\* The length of the scheme https?:// that s starts with, 0 when there is none.
SchemeLen(s) ==
    IF StartsWith(s, <<"h", "t", "t", "p", "s", ":", "/", "/">>) THEN 8
    ELSE IF StartsWith(s, <<"h", "t", "t", "p", ":", "/", "/">>) THEN 7
    ELSE 0

\* re.sub(r'https?://[^\s]+', lambda m: m.group(0).split('/')[2] ..., text):
\* the leftmost matches, each replaced by the third part of the match
\* split at "/".
RECURSIVE UrlToDomain(_)
UrlToDomain(s) ==
    IF s = <<>> THEN <<>>
    ELSE IF SchemeLen(s) > 0 /\ LeadingNonSpaces(s) > SchemeLen(s)
    THEN LET m == SubSeq(s, 1, LeadingNonSpaces(s))
         IN  SplitSlash(m)[3] \o UrlToDomain(Drop(s, Len(m)))
    ELSE <<Head(s)>> \o UrlToDomain(Tail(s))

\* re.sub(r'(\d+)\s*%', r'\1%', text)
RECURSIVE NormalizePercent(_)
NormalizePercent(s) ==
    IF s = <<>> THEN <<>>
    ELSE LET d     == LeadingDigits(s)
             after == Drop(s, d + LeadingSpaces(Drop(s, d)))
         IN  IF d > 0 /\ after # <<>> /\ Head(after) = "%"
             THEN SubSeq(s, 1, d) \o <<"%">> \o NormalizePercent(Tail(after))
             ELSE <<Head(s)>> \o NormalizePercent(Tail(s))

\* str.split('.')
RECURSIVE SplitDot(_)
SplitDot(s) ==
    IF s = <<>> THEN << <<>> >>
    ELSE LET rest == SplitDot(Tail(s))
         IN  IF Head(s) = "." THEN << <<>> >> \o rest
             ELSE <<(<<Head(s)>> \o Head(rest))>> \o Tail(rest)

\* The loop of clean_text over the lines: the first of the lines that are
\* equal once stripped and lowered is kept, stripped.
RECURSIVE UniqueLines(_, _)
UniqueLines(lines, seen) ==
    IF lines = <<>> THEN <<>>
    ELSE LET line       == Strip(Head(lines))
             normalized == Lower(line)
         IN  IF normalized # <<>> /\ normalized \notin seen
             THEN <<line>> \o UniqueLines(Tail(lines), seen \cup {normalized})
             ELSE UniqueLines(Tail(lines), seen)

clean_text(text) ==
    IF text = <<>> THEN <<>>
    ELSE Join(<<".", " ">>,
              UniqueLines(SplitDot(NormalizePercent(UrlToDomain(
                  StripSpecial(CollapseWhitespace(text))))), {}))

\* Texts handed to the cleaner: up to MaxPieces pieces out of a letter in
\* both cases, a blank, a character outside the allow-list, a full stop, a
\* digit, a percent sign and a URL up to its path.
Pieces == { <<"a">>, <<"A">>, <<" ">>, <<"!">>, <<".">>, <<"5">>, <<"%">>,
            <<"h", "t", "t", "p", ":", "/", "/", "a", "/">> }

RECURSIVE TextsOf(_)
TextsOf(n) ==
    IF n = 0 THEN {<<>>}
    ELSE LET shorter == TextsOf(n - 1)
         IN  shorter \cup {t \o piece : t \in shorter, piece \in Pieces}

Texts == TextsOf(MaxPieces)

InitClean ==
    /\ NotServing
    /\ ing = NoIngest
    /\ txt \in {[pc |-> "text", text |-> t, once |-> <<>>, twice |-> <<>>] :
                   t \in Texts}

\* clean_text applied to the text.
CleanOnce ==
    /\ txt.pc = "text"
    /\ txt' = [txt EXCEPT !.pc = "once", !.once = clean_text(txt.text)]
    /\ UNCHANGED <<servingVars, ing>>

\* clean_text applied to its own result.
CleanTwice ==
    /\ txt.pc = "once"
    /\ txt' = [txt EXCEPT !.pc = "twice", !.twice = clean_text(txt.once)]
    /\ UNCHANGED <<servingVars, ing>>

NextClean == CleanOnce \/ CleanTwice

SpecClean == InitClean /\ [][NextClean]_vars

(* ------------------- ingest.py: corpus and index ----------------------- *)

\* What exa_tool.invoke may return for a query, as parse_exa_result reads it:
\* a JSON object with a "results" list, or text with Title/URL/Text entries
\* (results) and, when it has none, the text itself.
RawResults ==
    { [json |-> TRUE,  results |-> <<>>, text |-> <<>>],
      [json |-> TRUE,  results |-> << <<"!">> >>, text |-> <<>>],
      [json |-> TRUE,  results |-> << <<"a", ".", "A">> >>, text |-> <<>>],
      [json |-> FALSE, results |-> << <<" ", "5", " ", "%">> >>, text |-> <<>>],
      [json |-> FALSE, results |-> <<>>, text |-> <<"!">>] }

\* The segments of the results whose cleaned text is not empty.
RECURSIVE Segments(_)
Segments(results) ==
    IF results = <<>> THEN <<>>
    ELSE LET cleaned_text == clean_text(Head(results))
         IN  (IF cleaned_text # <<>>
              THEN <<"Source: title\nURL: url\nContent: ">> \o cleaned_text
                       \o <<"\n\n">>
              ELSE <<>>) \o Segments(Tail(results))

\* parse_exa_result: the clean_content it returns.
parse_exa_result(raw_result) ==
    IF raw_result.json THEN Segments(raw_result.results)
    ELSE IF raw_result.results # <<>>
    THEN Segments([i \in 1..Len(raw_result.results) |->
                      Strip(raw_result.results[i])])
    ELSE <<"Source: Exa Search Result\nContent: ">> \o clean_text(raw_result.text)

Document(page_content, query) ==
    [page_content |-> page_content, query |-> query,
     source |-> "Bank of Maharashtra"]

\* What may happen to one query: the search raises or returns a result, and
\* each of the two audit files can or cannot be appended to.
QueryOutcomes ==
    {[search |-> FALSE, raw_result |-> [json |-> TRUE, results |-> <<>>,
                                       text |-> <<>>],
      raw_write |-> TRUE, cleaned_write |-> TRUE]}
    \cup [search : {TRUE}, raw_result : RawResults, raw_write : BOOLEAN,
          cleaned_write : BOOLEAN]

\* Variant of FetchQuery: an exception ends the loop over the queries.
FetchQuery_aborting(run, o) ==
    LET tried         == [run EXCEPT !.attempts = Append(@, run.i), !.i = @ + 1]
        clean_content == parse_exa_result(o.raw_result)
    IN  IF ~o.search \/ ~o.raw_write \/ ~o.cleaned_write
        THEN [tried EXCEPT !.pc = "failed", !.failed_at = "query",
                           !.exc = "Exception"]
        ELSE [tried EXCEPT !.raw = Append(@, run.i),
                           !.cleaned = Append(@, run.i),
                           !.documents =
                               IF Strip(clean_content) # <<>>
                               THEN Append(@, Document(clean_content, run.i))
                               ELSE @]

\* One turn of the loop of fetch_and_process_data, for the query number run.i:
\* search, raw audit file, parse, cleaned audit file, Document; an exception
\* anywhere goes to the except clause, which continues with the next query.
FetchQuery(run, o) ==
    LET tried         == [run EXCEPT !.attempts = Append(@, run.i), !.i = @ + 1]
        clean_content == parse_exa_result(o.raw_result)
    IN  IF ~o.search THEN tried
        ELSE IF ~o.raw_write THEN tried
        ELSE IF ~o.cleaned_write THEN [tried EXCEPT !.raw = Append(@, run.i)]
        ELSE [tried EXCEPT !.raw = Append(@, run.i),
                           !.cleaned = Append(@, run.i),
                           !.documents =
                               IF Strip(clean_content) # <<>>
                               THEN Append(@, Document(clean_content, run.i))
                               ELSE @]

NoIndex == [exists |-> FALSE, chunks |-> <<>>]
OldIndex == [exists |-> TRUE, chunks |-> <<Document(<<"o", "l", "d">>, 0)>>]
\* What a save_local that raised part-way leaves at the index location.
TornIndex == [exists |-> TRUE, chunks |-> <<>>]

\* text_splitter.split_documents: a Document no longer than the chunk size is
\* one chunk (every Document of the model is).
RECURSIVE SplitDocuments(_)
SplitDocuments(documents) ==
    IF documents = <<>> THEN <<>>
    ELSE (IF Len(Head(documents).page_content) <= get_chunk_size
          THEN <<Head(documents)>> ELSE <<>>) \o SplitDocuments(Tail(documents))

\* Where create_vector_db may raise: in the splitter, loading the embedding
\* model, building the index, or in save_local.
IndexFaults == {"none", "split", "embed", "build", "save"}

\* Variant of create_vector_db: the index location is emptied before the new
\* index is built.
create_vector_db_clearing_first(documents, index, fault, torn) ==
    IF documents = <<>>
    THEN [index |-> index, exc |-> "ValueError", failed_at |-> "input"]
    ELSE IF fault \in {"split", "embed", "build"}
    THEN [index |-> NoIndex, exc |-> "Exception", failed_at |-> fault]
    ELSE IF fault = "save"
    THEN [index |-> IF torn THEN TornIndex ELSE NoIndex, exc |-> "Exception",
          failed_at |-> "save"]
    ELSE [index |-> [exists |-> TRUE, chunks |-> SplitDocuments(documents)],
          exc |-> "none", failed_at |-> "none"]

\* create_vector_db: the index location after the call, the exception raised
\* and the step that raised it.  A save_local that raises may or may not have
\* touched the location already (torn).
create_vector_db(documents, index, fault, torn) ==
    IF documents = <<>>
    THEN [index |-> index, exc |-> "ValueError", failed_at |-> "input"]
    ELSE IF fault \in {"split", "embed", "build"}
    THEN [index |-> index, exc |-> "Exception", failed_at |-> fault]
    ELSE IF fault = "save"
    THEN [index |-> IF torn THEN TornIndex ELSE index, exc |-> "Exception",
          failed_at |-> "save"]
    ELSE [index |-> [exists |-> TRUE, chunks |-> SplitDocuments(documents)],
          exc |-> "none", failed_at |-> "none"]

\* ingest.py is started: audit files and index as earlier runs left them.
InitIngest ==
    /\ NotServing
    /\ txt = NoText
    /\ \E old \in {<<>>, <<0>>}, index \in {NoIndex, OldIndex} :
          ing = [pc |-> "start", i |-> 1, attempts |-> <<>>, documents |-> <<>>,
                 raw |-> old, cleaned |-> old, index |-> index,
                 exc |-> "none", failed_at |-> "none"]

\* fetch_and_process_data up to its loop: the old audit files are removed and
\* the search tool is made; without it the run ends.
FetchStart(tool) ==
    /\ ing.pc = "start"
    /\ ing' = IF tool
              THEN [ing EXCEPT !.pc = "query", !.raw = <<>>, !.cleaned = <<>>]
              ELSE [ing EXCEPT !.pc = "failed", !.raw = <<>>, !.cleaned = <<>>,
                               !.exc = "ValueError", !.failed_at = "start"]
    /\ UNCHANGED <<servingVars, txt>>

\* The loop of fetch_and_process_data takes the next query.
FetchNext(o) ==
    /\ ing.pc = "query"
    /\ ing.i <= NumQueries
    /\ ing' = FetchQuery(ing, o)
    /\ UNCHANGED <<servingVars, txt>>

\* fetch_and_process_data returns the Documents and __main__ hands them to
\* create_vector_db.
BuildIndex(fault, torn) ==
    /\ ing.pc = "query"
    /\ ing.i > NumQueries
    /\ LET r == create_vector_db(ing.documents, ing.index, fault, torn)
       IN  ing' = [ing EXCEPT !.pc = IF r.exc = "none" THEN "done" ELSE "failed",
                              !.index = r.index,
                              !.exc = r.exc,
                              !.failed_at = r.failed_at]
    /\ UNCHANGED <<servingVars, txt>>

NextIngest ==
    \/ \E tool \in BOOLEAN : FetchStart(tool)
    \/ \E o \in QueryOutcomes : FetchNext(o)
    \/ \E fault \in IndexFaults, torn \in BOOLEAN : BuildIndex(fault, torn)

SpecIngest == InitIngest /\ [][NextIngest]_vars

(* ------------------------------ claims --------------------------------- *)

QuestionAnswer(history) ==
    [i \in 1..Len(history) |->
        [question |-> history[i].question, answer |-> history[i].answer]]

RecordExists(store, session_id) ==
    Reachable(PathOf[session_id]) /\ store[PathOf[session_id]].exists

Normalized(question) == Join(<<" ">>, Words(question))

ValidationMessages == {<<"Question cannot be empty">>, <<"Question is too short">>}

\* A step of Spec that serves a query request from start to end.
QueryStep == nreq' = nreq + 1

\* A step of Spec in which a query or a clear request for the session is
\* served.
ServedFor(session_id) ==
    resp'.session_id = session_id /\ (QueryStep \/ resp'.op = "clear")

\* C1: after N save_conversation calls for a session, starting from no record
\* and with no clear of that session in between, load_conversation returns
\* exactly the N Exchanges of those calls, in call order.
C1_LoadReturnsAppends ==
    \A s \in SessionIds : QuestionAnswer(load_conversation(fs, s)) = calls[s]

\* C2: a process_query call that returns a model-generated answer has appended
\* its Exchange to the record of its session: on return the last stored
\* Exchange carries the question, the full answer and the number of chunks.
C2_AnswerIsRecorded ==
    (resp.op = "query" /\ resp.code = 200 /\ resp.out.kind = "answer") =>
        LET h == load_conversation(fs, resp.session_id)
        IN  /\ h # <<>>
            /\ h[Len(h)].question = resp.out.question
            /\ h[Len(h)].answer = resp.out.answer
            /\ h[Len(h)].context_sources = Len(resp.out.context_used)

\* C3 as stated: every question that is empty or shorter than 3 characters
\* after whitespace normalization makes process_query fail with a validation
\* fault.
C3_ShortQuestionIsValidationFault ==
    (resp.op = "query" /\ resp.code # 422
        /\ Len(Normalized(resp.out.question)) < MinQuestionLen) =>
        (resp.out.exc = "ValueError" /\ resp.out.detail \in ValidationMessages)

\* C3 as amended: a question that is empty or shorter than 3 characters after
\* whitespace normalization makes process_query fail without retrieval, model
\* call or change of any record; the failure is the validation fault when the
\* system is initialized or initializes on demand, and the failure of the
\* initialization otherwise.
C3_ShortQuestionRejected ==
    [][(QueryStep /\ Len(Normalized(resp'.out.question)) < MinQuestionLen) =>
              /\ fs' = fs
              /\ resp'.out.exc # "none"
              /\ resp'.out.retr_calls = 0
              /\ resp'.out.llm_calls = 0
              /\ resp'.out.save_calls = 0
              /\ IF g.retriever # None \/ (env.index /\ env.key)
                 THEN /\ resp'.out.exc = "ValueError"
                      /\ resp'.out.detail \in ValidationMessages
                 ELSE /\ resp'.out.exc \in {"FileNotFoundError", "ValueError"}
                      /\ resp'.out.detail \notin ValidationMessages]_vars

C3_Witness ==
    /\ resp.op = "query"
    /\ resp.out.detail = <<"Question is too short">>
    /\ \E s \in SessionIds : load_conversation(fs, s) # <<>>

\* C4: when retrieval returns no chunk for a valid question, process_query
\* returns the fixed fallback answer with empty context and sources, calls no
\* model and leaves every record as it was.
C4_FallbackLeavesRecord ==
    [][(QueryStep /\ resp'.out.retr_calls = 1 /\ resp'.out.exc # "RetrievalError"
              /\ resp'.out.retrieved = 0) =>
              /\ resp'.code = 200
              /\ resp'.out.answer = FallbackAnswer
              /\ resp'.out.context_used = <<>>
              /\ resp'.out.sources = {}
              /\ resp'.out.llm_calls = 0
              /\ fs' = fs]_vars

C4_Witness ==
    /\ resp.op = "query"
    /\ resp.out.kind = "fallback"
    /\ load_conversation(fs, resp.session_id) # <<>>

\* C5: a process_query call in which initialization, retrieval or the model
\* call fails hands the failure to its caller, has made each call at most
\* once, and leaves every record as it was.
C5_FailureLeavesRecord ==
    [][(QueryStep
              /\ resp'.out.exc \notin {"none"}
              /\ resp'.out.detail \notin ValidationMessages) =>
              /\ resp'.code \in {400, 500}
              /\ resp'.out.answer = <<>>
              /\ resp'.out.retr_calls <= 1
              /\ resp'.out.llm_calls <= 1
              /\ resp'.out.save_calls = 0
              /\ fs' = fs]_vars

C5_Witness ==
    /\ resp.op = "query"
    /\ resp.out.exc = "LLMError"
    /\ load_conversation(fs, resp.session_id) # <<>>

C7_LaterWriterWins ==
    [][\A p \in 1..MaxInFlight :
          (QSaveWrite(p) /\ Reachable(PathOf[reqs[p].session_id])) =>
              LET path   == PathOf[reqs[p].session_id]
                  before == fs[path].data
                  after  == fs'[path].data
                  read   == reqs[p].conversation
              IN  /\ Len(after) = Len(read) + 1
                  /\ SubSeq(after, 1, Len(read)) = read
                  /\ \A i \in 1..Len(before) :
                        (\A j \in 1..Len(read) : read[j] # before[i]) =>
                            (\A k \in 1..Len(after) : after[k] # before[i])]_vars

\* Two calls for session "b" have both returned their answers, no clear came
\* between them, and the record holds one Exchange.
C7_Witness ==
    /\ \A p \in 1..MaxInFlight : reqs[p].pc = "idle"
    /\ Len(calls[<<"b">>]) = 2
    /\ Len(load_conversation(fs, <<"b">>)) = 1
    /\ resp.op = "query" /\ resp.code = 200

\* C8: an operation on one session id never changes what load returns for
\* another session id, and the history put into a prompt for a session is
\* made of the Exchanges recorded under that session id and of no other.
C8_SessionsIsolated ==
    [][\A s \in SessionIds :
          ServedFor(s) =>
              /\ \A t \in SessionIds \ {s} :
                    load_conversation(fs', t) = load_conversation(fs, t)
              /\ (QueryStep /\ resp'.out.retr_calls = 1) =>
                    resp'.out.history_text = format_conversation_history(calls[s])]_vars

\* C9: a 400 answer of the query operation always reports a failed question
\* validation, and every other failure is answered 500 with the generic
\* message.
C9_OnlyValidationIsClientFault ==
    resp.op = "query" =>
        /\ resp.code = 400 => resp.out.detail \in ValidationMessages
        /\ (resp.out.exc # "none" /\ resp.out.detail \notin ValidationMessages) =>
              /\ resp.code = 500
              /\ resp.detail = <<"Failed to process query. Please try again.">>

\* C10: the health probe answers "healthy" only when retriever, model and
\* prompt are all initialized, and 503 whenever one of them is missing.
C10_HealthyOnlyWhenInitialized ==
    resp.op = "health" =>
        (resp.code = 200 <=>
            (g.retriever # None /\ g.llm # None /\ g.prompt # None))
RECURSIVE IsSubSeq(_, _)
IsSubSeq(a, b) ==
    IF a = <<>> THEN TRUE
    ELSE IF b = <<>> THEN FALSE
    ELSE IF Head(a) = Head(b) THEN IsSubSeq(Tail(a), Tail(b))
    ELSE IsSubSeq(a, Tail(b))

\* No other session id of the model names the record of this one.
OwnPath(session_id) ==
    \A t \in SessionIds \ {session_id} : PathOf[t] # PathOf[session_id]

\* C16: cleared history never comes back: whatever load_conversation returns
\* for a session (and so whatever a save has written) is made of Exchanges
\* saved since the last clear of that session, in the order they were saved;
\* no Exchange that was in the record before the clear is among them,
\* however the clear interleaves with process_query calls in flight.
C16_ClearedNeverReturns ==
    \A s \in SessionIds :
        OwnPath(s) =>
            IsSubSeq(QuestionAnswer(load_conversation(fs, s)), calls[s])

\* C15: clean_text is idempotent: cleaning a cleaned text changes nothing.
C15_CleanTextIdempotent ==
    (txt.pc = "twice") => (txt.twice = txt.once)

Upto(n) == [k \in 1..n |-> k]

Range(f) == {f[k] : k \in DOMAIN f}

\* C12: the Corpus Builder hands every query of its list to the search once,
\* in the order of the list, whatever happened to the queries before it, and
\* the loop ends only after the last one; a query whose search or audit-file
\* write failed leaves no Document; each query leaves at most one Document
\* and the Documents are in the order of their queries.
C12_EveryQueryAttempted ==
    (ing.pc # "none") =>
        /\ ing.attempts = Upto(ing.i - 1)
        /\ (ing.pc \in {"done", "failed"} /\ ing.failed_at # "start") =>
               ing.attempts = Upto(NumQueries)
        /\ \A k \in 1..Len(ing.documents) :
               /\ ing.documents[k].query \in Range(ing.attempts)
               /\ ing.documents[k].query \in Range(ing.raw)
               /\ ing.documents[k].query \in Range(ing.cleaned)
               /\ \A j \in 1..(k - 1) :
                      ing.documents[j].query < ing.documents[k].query

\* The first query failed in the search or at the raw audit file, a later
\* one at the cleaned audit file, and the last query still gave a Document.
C12_Witness ==
    /\ ing.pc = "done"
    /\ 1 \notin Range(ing.raw)
    /\ \E k \in Range(ing.raw) : k \notin Range(ing.cleaned)
    /\ ing.documents # <<>>
    /\ ing.documents[Len(ing.documents)].query = NumQueries

\* C13: the index location changes only in the last step of the Index
\* Builder, save_local, reached with a non-empty Document list after
\* splitting, embedding and building succeeded; an empty Document list gives a
\* ValueError, and that or any failure before save_local leaves the index
\* that was there as it was.
C13_IndexWrittenLast ==
    [][(ing.pc # "none") =>
          /\ (ing'.index # ing.index) =>
                 /\ ing.pc = "query" /\ ing.i > NumQueries
                 /\ ing.documents # <<>>
                 /\ ing'.failed_at \in {"none", "save"}
          /\ (ing.pc = "query" /\ ing'.pc # "query" /\ ing.documents = <<>>) =>
                 /\ ing'.pc = "failed" /\ ing'.exc = "ValueError"
                 /\ ing'.index = ing.index]_vars

\* Building the index failed after Documents were collected and the index of
\* an earlier run is still in place.
C13_Witness ==
    /\ ing.pc = "failed"
    /\ ing.failed_at = "build"
    /\ ing.documents # <<>>
    /\ ing.index = OldIndex

\* The history block as the claim words it: for the last min(3, n) of the n
\* stored Exchanges, in order, a "User: " line with the question and an
\* "Assistant: " line with the first 200 characters of the answer followed by
\* the mark; the fixed marker when n = 0.
HistoryBlock(stored, mark) ==
    LET n     == Len(stored)
        shown == IF n < HistoryWindow THEN n ELSE HistoryWindow
        Line(k) ==
            LET e == stored[n - shown + (k + 1) \div 2]
            IN  IF k % 2 = 1 THEN <<"User: ">> \o e.question
                ELSE <<"Assistant: ">>
                         \o [c \in 1..(IF Len(e.answer) < HistoryAnswerChars
                                       THEN Len(e.answer)
                                       ELSE HistoryAnswerChars) |-> e.answer[c]]
                         \o mark
    IN  IF n = 0 THEN <<"No previous conversation">>
        ELSE Join(<<"\n">>, [k \in 1..(2 * shown) |-> Line(k)])

\* A step of Spec that serves a query whose prompt was made and sent to the
\* model.
PromptStep == QueryStep /\ resp'.op = "query" /\ resp'.out.llm_calls = 1

\* C14 as stated: the history block of a prompt renders the last min(3, n)
\* Exchanges stored for the session when the call was made, each as a
\* "User: <question>" line and an "Assistant: <answer>" line holding the
\* first 200 characters of the stored answer and nothing else; the marker
\* when n = 0; the call's own Exchange is not in it.
C14_HistoryBlockAsStated ==
    [][PromptStep =>
          resp'.out.history_text =
              HistoryBlock(load_conversation(fs, resp'.session_id), <<>>)]_vars

\* C14, amended: as above, but every "Assistant: " line ends with the
\* literal "..." after the first 200 characters of the answer, whether or
\* not the answer was longer.
C14_HistoryBlockWithEllipsis ==
    [][PromptStep =>
          resp'.out.history_text =
              HistoryBlock(load_conversation(fs, resp'.session_id), <<"...">>)]_vars

\* A query for session "b" was answered when MaxStored Exchanges were stored:
\* its own Exchange is now the last of the record, and one of the three
\* before it has an answer longer than HistoryAnswerChars.
C14_Witness ==
    /\ resp.op = "query" /\ resp.session_id = <<"b">>
    /\ resp.out.llm_calls = 1 /\ resp.out.save_calls = 1
    /\ MaxStored > HistoryWindow
    /\ LET h == load_conversation(fs, <<"b">>)
       IN  /\ Len(h) = MaxStored + 1
           /\ \E k \in (Len(h) - HistoryWindow)..(Len(h) - 1) :
                  Len(h[k].answer) > HistoryAnswerChars
           /\ resp.out.history_text =
                  HistoryBlock(SubSeq(h, 1, Len(h) - 1), <<"...">>)

====
